---- MODULE Spec2Model ----
(***************************************************************************)
(* Model of tensorflow/contrib/learn/python/learn/experiment.py: the       *)
(* Experiment class, its five public operations and the _continuous_eval   *)
(* helper, driven by one single-threaded caller and an external Estimator. *)
(*                                                                         *)
(* Python values are tagged records so that None, 0, [] and non-empty      *)
(* values stay distinct and Python truthiness can be computed.             *)
(*                                                                         *)
(* Time.  The wall clock is represented by the ages of the timestamps the  *)
(* code holds: elapsed is time.time() - start.  Time passes only inside    *)
(* the blocking calls (time.sleep, Estimator.fit, Estimator.evaluate);     *)
(* the statements between them take no time.  The clock is monotonic and   *)
(* time.sleep(d) blocks for at least d (at most d + MaxOversleep).         *)
(***************************************************************************)
EXTENDS Integers, Sequences, FiniteSets, TLC

VARIABLES
  self,                 \* the Experiment's fields (lines 64-71)
  ctor,                 \* the constructor's arguments, never changed
  op,                   \* public operation in progress, or the last one
  pc,                   \* where the caller's thread is
  delay_secs,           \* argument of the operation in progress
  throttle_delay_secs,  \* argument of _continuous_eval
  input_fn,             \* argument of _continuous_eval
  name,                 \* argument of _continuous_eval
  elapsed,              \* time.time() - start
  duration,             \* local of _continuous_eval (line 165)
  difference,           \* local of _continuous_eval (line 167)
  trace,                \* the Estimator events of this operation, in
                        \* order; _continuous_eval keeps those of the
                        \* current iteration only
  result,               \* value the operation returned
  error,                \* error kind that reached the caller
  log,                  \* messages logged by the last step
  waited,               \* time this operation slept before its first
                        \* Estimator invocation
  sinceInvoke,          \* time since the loop's last evaluate invocation
  gap,                  \* <<g>> when the last step invoked evaluate in the
                        \* loop g after the loop's previous invocation
  nCalls,               \* operations called so far
  nLocalRun,            \* local_run calls made so far
  passed,               \* the train_monitors object the caller gave to
                        \* __init__, as the caller sees it now
  aliased,              \* self._train_monitors is that very object
  twin                  \* the run of the other continuous wrapper on the
                        \* same arguments, Estimator and sleeps

vars == <<self, ctor, op, pc, delay_secs, throttle_delay_secs, input_fn,
          name, elapsed, duration, difference, trace, result, error, log,
          waited, sinceInvoke, gap, nCalls, nLocalRun, passed, aliased,
          twin>>

----------------------------------------------------------------------------
(* Bounds *)

MaxCalls == 2        \* operations one caller invokes on the Experiment
MaxDelay == 1        \* largest delay_secs tried
MaxThrottle == 2     \* largest throttle_delay_secs tried
MaxEvalTime == 2     \* longest Estimator.evaluate run inside the loop
MaxOversleep == 1    \* how much longer than asked time.sleep may block

Delays == (0 - 1)..MaxDelay
Throttles == (0 - 1)..MaxThrottle
EvalTimes == 0..MaxEvalTime
Oversleeps == 0..MaxOversleep

----------------------------------------------------------------------------
(* Python values *)

None == [tag |-> "None"]
PyInt(n) == [tag |-> "int", v |-> n]
PyList(s) == [tag |-> "list", v |-> s]
PyObj(t, n) == [tag |-> t, v |-> n]

\* Python truth value testing, as used by `if x:` and `x or y`.
Truthy(x) ==
  CASE x.tag = "None" -> FALSE
    [] x.tag = "int"  -> x.v # 0
    [] x.tag = "list" -> Len(x.v) > 0
    [] OTHER          -> TRUE

\* `if delay_secs:` on a number (lines 86, 109, 151).
DelayRequested(d) == d # 0

\* time.sleep rejects a negative length: ValueError on Python 3,
\* IOError (EINVAL) on Python 2.
SleepErrors == {"ValueError", "IOError"}
SleepRejects(d) == d < 0

\* Error kinds the Estimator may raise.
EstimatorErrors == {"NotFittedError", "RuntimeError"}
NoError == "NoError"

\* Values the Estimator returns.
FitResults == {PyObj("estimator", "self")}
EvalResults == {PyObj("dict", "scores_a"), PyObj("dict", "scores_b")}

UserMonitor(i) == PyObj("monitor", i)

\* monitors.ValidationMonitor(...) of lines 126-129.
ValidationMonitor(fn, steps, metrics, n) ==
  [tag |-> "ValidationMonitor", input_fn |-> fn, eval_steps |-> steps,
   metrics |-> metrics, every_n_steps |-> n]

----------------------------------------------------------------------------
(* Experiment.__init__ *)

\* Settings of eval_metrics, train_steps and eval_steps that are tried:
\* the defaults of lines 38-40, all given, and all None.
StepSettings ==
  {[eval_metrics |-> None, train_steps |-> None, eval_steps |-> PyInt(100)],
   [eval_metrics |-> PyObj("dict", "metrics"), train_steps |-> PyInt(10),
    eval_steps |-> PyInt(50)],
   [eval_metrics |-> None, train_steps |-> None, eval_steps |-> None]}

MonitorSettings ==
  {None, PyList(<<>>), PyList(<<UserMonitor(1), UserMonitor(2)>>)}

FrequencySettings == {None, PyInt(0), PyInt(5)}

\* What __init__ stores from arguments st, m and f (lines 64-71).
Experiment(st, m, f) ==
  [estimator |-> PyObj("estimator", "self"),
   train_input_fn |-> PyObj("function", "train_input_fn"),
   eval_input_fn |-> PyObj("function", "eval_input_fn"),
   eval_metrics |-> st.eval_metrics,
   train_steps |-> st.train_steps,
   eval_steps |-> st.eval_steps,
   train_monitors |-> m,
   local_eval_frequency |-> f]

\* A thread that is in neither continuous wrapper.
TwinIdle ==
  [pc |-> "idle", delay_secs |-> 0, throttle_delay_secs |-> 0,
   input_fn |-> None, name |-> "none", elapsed |-> 0, duration |-> 0,
   difference |-> 0, trace |-> <<>>, error |-> NoError, log |-> <<>>]

Init ==
  /\ \E st \in StepSettings, m \in MonitorSettings, f \in FrequencySettings :
       ctor = Experiment(st, m, f)
  /\ self = ctor
  /\ op = "none"
  /\ pc = "idle"
  /\ delay_secs = 0
  /\ throttle_delay_secs = 0
  /\ input_fn = None
  /\ name = "none"
  /\ elapsed = 0
  /\ duration = 0
  /\ difference = 0
  /\ trace = <<>>
  /\ result = None
  /\ error = NoError
  /\ log = <<>>
  /\ waited = 0
  /\ sinceInvoke = 0
  /\ gap = <<>>
  /\ nCalls = 0
  /\ nLocalRun = 0
  /\ passed = ctor.train_monitors
  /\ aliased = (ctor.train_monitors.tag = "list")
  /\ twin = TwinIdle

----------------------------------------------------------------------------
(* Estimator events *)

CallEv(fn, args) == [ev |-> "call", fn |-> fn, args |-> args]
ReturnEv(fn, v) == [ev |-> "return", fn |-> fn, value |-> v]
RaiseEv(fn, e) == [ev |-> "raise", fn |-> fn, kind |-> e]

\* Arguments of self._estimator.fit (lines 90-92).
FitArgs(s) ==
  [input_fn |-> s.train_input_fn, max_steps |-> s.train_steps,
   monitors |-> s.train_monitors]

\* Arguments of self._estimator.evaluate in evaluate (lines 113-116).
EvaluateArgs(s) ==
  [input_fn |-> s.eval_input_fn, steps |-> s.eval_steps,
   metrics |-> s.eval_metrics, name |-> "one_pass"]

\* Arguments of self._estimator.evaluate in _continuous_eval (158-161).
ContinuousArgs(s, fn, nm) ==
  [input_fn |-> fn, steps |-> s.eval_steps, metrics |-> s.eval_metrics,
   name |-> nm]

----------------------------------------------------------------------------
(* Calling an operation *)

Callable == pc \in {"idle", "returned", "raised"} /\ nCalls < MaxCalls

\* A new activation: the arguments are bound and the locals are fresh.
Begin(o, d, t, f, n) ==
  /\ Callable
  /\ op' = o
  /\ delay_secs' = d
  /\ throttle_delay_secs' = t
  /\ input_fn' = f
  /\ name' = n
  /\ nCalls' = nCalls + 1
  /\ result' = None
  /\ waited' = 0
  /\ elapsed' = 0
  /\ duration' = 0
  /\ difference' = 0
  /\ sinceInvoke' = 0
  /\ gap' = <<>>

activation == <<op, delay_secs, throttle_delay_secs, input_fn, name, nCalls>>
timing == <<elapsed, duration, difference, sinceInvoke, gap>>

\* time.sleep(d) is entered: it raises at once on a negative length,
\* otherwise the thread blocks at `at`.
EnterSleep(d, at, tr) ==
  /\ trace' = tr
  /\ IF SleepRejects(d)
       THEN pc' = "raised" /\ error' \in SleepErrors
       ELSE pc' = at /\ error' = NoError

\* Faulty variant of TrainEnter: the delay is logged but not slept.
TrainEnterNoSleep(d, s, tr) ==
  /\ log' = IF DelayRequested(d)
              THEN <<"Waiting %d secs before starting training.">>
              ELSE <<>>
  /\ pc' = "fit"
  /\ error' = NoError
  /\ trace' = Append(tr, CallEv("fit", FitArgs(s)))

\* Experiment.train up to the point where it blocks (lines 86-92); s is
\* the Experiment as train reads it, tr the events so far.
TrainEnter(d, s, tr) ==
  IF DelayRequested(d)
    THEN /\ log' = <<"Waiting %d secs before starting training.">>
         /\ EnterSleep(d, "train_sleep", tr)
    ELSE /\ log' = <<>>
         /\ pc' = "fit"
         /\ error' = NoError
         /\ trace' = Append(tr, CallEv("fit", FitArgs(s)))

\* Experiment.evaluate up to the point where it blocks (lines 109-116).
EvaluateEnter(d, s, tr) ==
  IF DelayRequested(d)
    THEN /\ log' = <<"Waiting %d secs before starting eval.">>
         /\ EnterSleep(d, "evaluate_sleep", tr)
    ELSE /\ log' = <<>>
         /\ pc' = "evaluate"
         /\ error' = NoError
         /\ trace' = Append(tr, CallEv("evaluate", EvaluateArgs(s)))

\* train(delay_secs=d), lines 73-92.
train(d) ==
  /\ Begin("train", d, 0, None, "none")
  /\ TrainEnter(d, self, <<>>)
  /\ twin' = TwinIdle
  /\ UNCHANGED <<self, ctor, passed, aliased, nLocalRun>>

\* evaluate(delay_secs=d), lines 94-116.
evaluate(d) ==
  /\ Begin("evaluate", d, 0, None, "none")
  /\ EvaluateEnter(d, self, <<>>)
  /\ twin' = TwinIdle
  /\ UNCHANGED <<self, ctor, passed, aliased, nLocalRun>>

\* Faulty variant of LocalRunMonitors: the new monitor is put first.
LocalRunMonitorsPrepend(s) ==
  LET base == IF Truthy(s.train_monitors) THEN s.train_monitors
              ELSE PyList(<<>>)
  IN IF Truthy(s.local_eval_frequency)
       THEN PyList(<<ValidationMonitor(s.eval_input_fn, s.eval_steps,
                                       s.eval_metrics,
                                       s.local_eval_frequency)>> \o base.v)
       ELSE base

\* Faulty variant of LocalRunMonitors: the test of local_eval_frequency
\* is missing and a monitor is appended on every call.
LocalRunMonitorsAlways(s) ==
  LET base == IF Truthy(s.train_monitors) THEN s.train_monitors
              ELSE PyList(<<>>)
  IN PyList(base.v \o <<ValidationMonitor(s.eval_input_fn, s.eval_steps,
                                          s.eval_metrics,
                                          s.local_eval_frequency)>>)

\* Variant of LocalRunMonitors that is idempotent: the monitor is
\* appended only if the list does not hold it yet.
LocalRunMonitorsOnce(s) ==
  LET base == IF Truthy(s.train_monitors) THEN s.train_monitors
              ELSE PyList(<<>>)
      m == ValidationMonitor(s.eval_input_fn, s.eval_steps, s.eval_metrics,
                             s.local_eval_frequency)
  IN IF Truthy(s.local_eval_frequency)
          /\ \A i \in 1..Len(base.v) : base.v[i] # m
       THEN PyList(base.v \o <<m>>)
       ELSE base

\* self._train_monitors after lines 124-129.
LocalRunMonitors(s) ==
  LET base == IF Truthy(s.train_monitors) THEN s.train_monitors
              ELSE PyList(<<>>)
  IN IF Truthy(s.local_eval_frequency)
       THEN PyList(base.v \o <<ValidationMonitor(s.eval_input_fn,
                                                 s.eval_steps,
                                                 s.eval_metrics,
                                                 s.local_eval_frequency)>>)
       ELSE base

\* Faulty variant of local_run: local_eval_frequency is cleared once the
\* monitor is in the list.
local_run_clears_frequency ==
  /\ Begin("local_run", 0, 0, None, "none")
  /\ self' = [self EXCEPT !.train_monitors = LocalRunMonitors(self),
                          !.local_eval_frequency = None]
  /\ TrainEnter(0, self', <<>>)
  /\ nLocalRun' = nLocalRun + 1
  /\ aliased' = (aliased /\ Truthy(self.train_monitors))
  /\ passed' = IF aliased' THEN self'.train_monitors ELSE passed
  /\ twin' = TwinIdle
  /\ UNCHANGED ctor

\* local_run(), lines 118-130: the monitors are set up, then self.train()
\* runs with its default delay_secs = 0.
local_run ==
  /\ Begin("local_run", 0, 0, None, "none")
  /\ self' = [self EXCEPT !.train_monitors = LocalRunMonitors(self)]
  /\ TrainEnter(0, self', <<>>)
  /\ nLocalRun' = nLocalRun + 1
  /\ aliased' = (aliased /\ Truthy(self.train_monitors))
  /\ passed' = IF aliased' THEN self'.train_monitors ELSE passed
  /\ twin' = TwinIdle
  /\ UNCHANGED ctor

\* time.sleep(delay_secs) of train returns (line 88) and fit is invoked.
TrainSleepReturn(over) ==
  /\ pc = "train_sleep"
  /\ waited' = waited + delay_secs + over
  /\ pc' = "fit"
  /\ trace' = Append(trace, CallEv("fit", FitArgs(self)))
  /\ log' = <<>>
  /\ UNCHANGED <<self, ctor, passed, aliased, twin, activation, timing,
                 result, error, nLocalRun>>

\* time.sleep(delay_secs) of evaluate returns (line 111).
EvaluateSleepReturn(over) ==
  /\ pc = "evaluate_sleep"
  /\ waited' = waited + delay_secs + over
  /\ pc' = "evaluate"
  /\ trace' = Append(trace, CallEv("evaluate", EvaluateArgs(self)))
  /\ log' = <<>>
  /\ UNCHANGED <<self, ctor, passed, aliased, twin, activation, timing,
                 result, error, nLocalRun>>

\* Faulty variant of FitReturn: local_run ends with `return self.train()`
\* and never evaluates.
FitReturnEndsLocalRun(v) ==
  /\ pc = "fit"
  /\ pc' = "returned"
  /\ result' = v
  /\ trace' = Append(trace, ReturnEv("fit", v))
  /\ log' = <<>>
  /\ UNCHANGED <<self, ctor, passed, aliased, twin, activation, timing,
                 waited, error, nLocalRun>>

\* Estimator.fit returns v.  train returns it (line 90); local_run drops
\* it and goes on to self.evaluate() with delay_secs = 0 (lines 130-131).
FitReturn(v) ==
  /\ pc = "fit"
  /\ IF op = "local_run"
       THEN /\ EvaluateEnter(0, self, Append(trace, ReturnEv("fit", v)))
            /\ UNCHANGED result
       ELSE /\ pc' = "returned"
            /\ result' = v
            /\ trace' = Append(trace, ReturnEv("fit", v))
            /\ log' = <<>>
            /\ UNCHANGED error
  /\ UNCHANGED <<self, ctor, passed, aliased, twin, activation, timing,
                 waited, nLocalRun>>

\* Faulty variant of FitRaise: local_run takes its periodic monitor off
\* the list again when training fails.
FitRaiseRollsBack(e) ==
  /\ pc = "fit"
  /\ pc' = "raised"
  /\ error' = e
  /\ trace' = Append(trace, RaiseEv("fit", e))
  /\ log' = <<>>
  /\ self' = IF op = "local_run" /\ Truthy(self.local_eval_frequency)
               THEN [self EXCEPT !.train_monitors =
                       PyList(SubSeq(self.train_monitors.v, 1,
                                     Len(self.train_monitors.v) - 1))]
               ELSE self
  /\ passed' = IF aliased THEN self'.train_monitors ELSE passed
  /\ UNCHANGED <<ctor, aliased, twin, activation, timing, result, waited,
                 nLocalRun>>

\* Estimator.fit raises e: nothing in train or local_run catches it.
FitRaise(e) ==
  /\ pc = "fit"
  /\ pc' = "raised"
  /\ error' = e
  /\ trace' = Append(trace, RaiseEv("fit", e))
  /\ log' = <<>>
  /\ UNCHANGED <<self, ctor, passed, aliased, twin, activation, timing,
                 result, waited, nLocalRun>>

\* Estimator.evaluate returns v to evaluate, which returns it (line 113);
\* local_run returns what evaluate returned (line 131).
EvaluateReturn(v) ==
  /\ pc = "evaluate"
  /\ pc' = "returned"
  /\ result' = v
  /\ trace' = Append(trace, ReturnEv("evaluate", v))
  /\ log' = <<>>
  /\ UNCHANGED <<self, ctor, passed, aliased, twin, activation, timing,
                 error, waited, nLocalRun>>

\* Faulty variant of EvaluateRaise: the error is wrapped, so the caller
\* gets a RuntimeError whatever the Estimator raised.
EvaluateRaiseWrapped(e) ==
  /\ pc = "evaluate"
  /\ pc' = "raised"
  /\ error' = "RuntimeError"
  /\ trace' = Append(trace, RaiseEv("evaluate", e))
  /\ log' = <<>>
  /\ UNCHANGED <<self, ctor, passed, aliased, twin, activation, timing,
                 result, waited, nLocalRun>>

\* Estimator.evaluate raises e inside evaluate: not caught.
EvaluateRaise(e) ==
  /\ pc = "evaluate"
  /\ pc' = "raised"
  /\ error' = e
  /\ trace' = Append(trace, RaiseEv("evaluate", e))
  /\ log' = <<>>
  /\ UNCHANGED <<self, ctor, passed, aliased, twin, activation, timing,
                 result, waited, nLocalRun>>

----------------------------------------------------------------------------
(* _continuous_eval *)

\* Faulty variant of Recovered: `except Exception`, every error handled.
RecoveredAny(e) == TRUE

\* `except NotFittedError` (line 162): the one error kind the loop handles.
Recovered(e) == e = "NotFittedError"

\* Faulty variant of Throttled: `<=`, so a remainder of zero is slept.
ThrottledInclusive(dur, throttle) == dur <= throttle

\* Faulty variant of Throttled: the sleep is skipped one second early.
ThrottledOffByOne(dur, throttle) == dur + 1 < throttle

\* `if duration < throttle_delay_secs` (line 166).
Throttled(dur, throttle) == dur < throttle

\* Faulty variant of Difference: the whole throttle window is slept,
\* whatever the evaluation took.
DifferenceWholeThrottle(dur, throttle) == throttle

\* `difference = throttle_delay_secs - duration` (line 167).
Difference(dur, throttle) == throttle - dur

\* Top of the loop (lines 156-161): start = time.time(), then
\* Estimator.evaluate is invoked.  duration and difference are dead until
\* lines 165 and 167 assign them again.  since is the time that has
\* passed since the previous invocation of this loop; first tells there
\* was none; fn and nm are _continuous_eval's input_fn and name.
LoopStart(since, first, fn, nm) ==
  /\ elapsed' = 0
  /\ duration' = 0
  /\ difference' = 0
  /\ sinceInvoke' = 0
  /\ gap' = IF first THEN <<>> ELSE <<since>>
  /\ pc' = "ce_evaluate"
  /\ trace' = <<CallEv("evaluate", ContinuousArgs(self, fn, nm))>>

\* Lines 165-170, reached t after the iteration's start timestamp: the
\* loop either sleeps the remainder or goes round at once.
AfterEvaluate(t, tr, lg) ==
  LET dur == elapsed + t
  IN /\ IF Throttled(dur, throttle_delay_secs)
          THEN /\ duration' = dur
               /\ difference' = Difference(dur, throttle_delay_secs)
               /\ log' = lg \o
                         <<"Waiting %f secs before starting next eval run.">>
               /\ pc' = "ce_sleep"
               /\ elapsed' = dur
               /\ sinceInvoke' = sinceInvoke + t
               /\ trace' = tr
               /\ gap' = <<>>
          ELSE /\ log' = lg
               /\ LoopStart(sinceInvoke + t, FALSE, input_fn, name)

\* The same code run by the other wrapper's thread w, as functions of its
\* state.  Lines 156-161:
TwinLoopStart(w, s) ==
  [w EXCEPT !.pc = "ce_evaluate", !.elapsed = 0, !.duration = 0,
            !.difference = 0, !.log = <<>>,
            !.trace = <<CallEv("evaluate",
                               ContinuousArgs(s, w.input_fn, w.name))>>]

\* Lines 165-170.
TwinAfterEvaluate(w, s, t, tr, lg) ==
  LET dur == w.elapsed + t
  IN IF Throttled(dur, w.throttle_delay_secs)
       THEN [w EXCEPT !.duration = dur,
                      !.difference = Difference(dur, w.throttle_delay_secs),
                      !.log = lg \o
                        <<"Waiting %f secs before starting next eval run.">>,
                      !.pc = "ce_sleep", !.elapsed = dur, !.trace = tr]
       ELSE [TwinLoopStart(w, s) EXCEPT !.log = lg]

\* Lines 157-164 when Estimator.evaluate raises e after t.
TwinEvaluateRaise(w, s, t, e) ==
  IF Recovered(e)
    THEN TwinAfterEvaluate(w, s, t, Append(w.trace, RaiseEv("evaluate", e)),
           <<"Estimator is not fitted yet, skipping evaluation.">>)
    ELSE [w EXCEPT !.pc = "raised", !.error = e, !.log = <<>>,
                   !.elapsed = w.elapsed + t,
                   !.trace = Append(w.trace, RaiseEv("evaluate", e))]

\* Lines 151-158 with the arguments bound; kind is the error this
\* interpreter's time.sleep raises on a negative length.
TwinEnter(d, t, fn, nm, s, kind) ==
  LET w == [TwinIdle EXCEPT !.delay_secs = d, !.throttle_delay_secs = t,
                            !.input_fn = fn, !.name = nm]
      lg == <<"Waiting %f secs before starting eval.">>
  IN IF DelayRequested(d)
       THEN IF SleepRejects(d)
              THEN [w EXCEPT !.pc = "raised", !.error = kind, !.log = lg]
              ELSE [w EXCEPT !.pc = "ce_delay", !.log = lg]
       ELSE TwinLoopStart(w, s)

\* _continuous_eval up to the point where it blocks (lines 151-158).
ContinuousEnter(d, fn, nm) ==
  IF DelayRequested(d)
    THEN /\ log' = <<"Waiting %f secs before starting eval.">>
         /\ EnterSleep(d, "ce_delay", <<>>)
    ELSE /\ log' = <<>>
         /\ error' = NoError
         /\ LoopStart(0, TRUE, fn, nm)

\* The part of Begin that ContinuousEnter does not decide.
BeginContinuous(o, d, t, f, n) ==
  /\ Callable
  /\ op' = o
  /\ delay_secs' = d
  /\ throttle_delay_secs' = t
  /\ input_fn' = f
  /\ name' = n
  /\ nCalls' = nCalls + 1
  /\ result' = None
  /\ waited' = 0
  /\ IF DelayRequested(d)
       THEN /\ elapsed' = 0
            /\ duration' = 0
            /\ difference' = 0
            /\ sinceInvoke' = 0
            /\ gap' = <<>>
       ELSE TRUE

\* continuous_eval(delay_secs=d, throttle_delay_secs=t), lines 172-176.
continuous_eval(d, t) ==
  /\ BeginContinuous("continuous_eval", d, t, self.eval_input_fn,
                     "continuous")
  /\ ContinuousEnter(d, input_fn', name')
  /\ twin' = TwinEnter(d, t, self.train_input_fn,
                       "continuous_on_train_data", self, error')
  /\ UNCHANGED <<self, ctor, passed, aliased, nLocalRun>>

\* Faulty variant of continuous_eval_on_train_data: delay_secs is not
\* handed on, so _continuous_eval runs with its default of 0.
continuous_eval_on_train_data_drops_delay(d, t) ==
  /\ BeginContinuous("continuous_eval_on_train_data", 0, t,
                     self.train_input_fn, "continuous_on_train_data")
  /\ ContinuousEnter(0, input_fn', name')
  /\ twin' = TwinEnter(d, t, self.eval_input_fn, "continuous", self,
                       error')
  /\ UNCHANGED <<self, ctor, passed, aliased, nLocalRun>>

\* continuous_eval_on_train_data(delay_secs=d, throttle_delay_secs=t),
\* lines 178-182.
continuous_eval_on_train_data(d, t) ==
  /\ BeginContinuous("continuous_eval_on_train_data", d, t,
                     self.train_input_fn, "continuous_on_train_data")
  /\ ContinuousEnter(d, input_fn', name')
  /\ twin' = TwinEnter(d, t, self.eval_input_fn, "continuous", self,
                       error')
  /\ UNCHANGED <<self, ctor, passed, aliased, nLocalRun>>

\* time.sleep(delay_secs) of _continuous_eval returns (line 153) and the
\* loop is entered.
ContinuousDelayReturn(over) ==
  /\ pc = "ce_delay"
  /\ waited' = waited + delay_secs + over
  /\ LoopStart(0, TRUE, input_fn, name)
  /\ log' = <<>>
  /\ twin' = TwinLoopStart(twin, self)
  /\ UNCHANGED <<self, ctor, passed, aliased, activation, result, error,
                 nLocalRun>>

\* Estimator.evaluate returns v after running for t; the loop drops v.
ContinuousEvaluateReturn(t, v) ==
  /\ pc = "ce_evaluate"
  /\ AfterEvaluate(t, Append(trace, ReturnEv("evaluate", v)), <<>>)
  /\ twin' = TwinAfterEvaluate(twin, self, t,
                 Append(twin.trace, ReturnEv("evaluate", v)), <<>>)
  /\ UNCHANGED <<self, ctor, passed, aliased, activation, result, error,
                 waited, nLocalRun>>

\* Faulty variant of ContinuousEvaluateRaise: the except clause ends with
\* `continue`, so a NotFittedError skips lines 165-170.
ContinuousEvaluateRaiseContinue(t, e) ==
  /\ pc = "ce_evaluate"
  /\ IF Recovered(e)
       THEN /\ log' = <<"Estimator is not fitted yet, skipping evaluation.">>
            /\ LoopStart(sinceInvoke + t, FALSE, input_fn, name)
            /\ UNCHANGED error
       ELSE /\ pc' = "raised"
            /\ error' = e
            /\ trace' = Append(trace, RaiseEv("evaluate", e))
            /\ log' = <<>>
            /\ elapsed' = elapsed + t
            /\ sinceInvoke' = sinceInvoke + t
            /\ gap' = <<>>
            /\ UNCHANGED <<duration, difference>>
  /\ twin' = TwinEvaluateRaise(twin, self, t, e)
  /\ UNCHANGED <<self, ctor, passed, aliased, activation, result, waited,
                 nLocalRun>>

\* Estimator.evaluate raises e after running for t (lines 157-164).
ContinuousEvaluateRaise(t, e) ==
  /\ pc = "ce_evaluate"
  /\ IF Recovered(e)
       THEN /\ AfterEvaluate(t, Append(trace, RaiseEv("evaluate", e)),
                 <<"Estimator is not fitted yet, skipping evaluation.">>)
            /\ UNCHANGED error
       ELSE /\ pc' = "raised"
            /\ error' = e
            /\ trace' = Append(trace, RaiseEv("evaluate", e))
            /\ log' = <<>>
            /\ elapsed' = elapsed + t
            /\ sinceInvoke' = sinceInvoke + t
            /\ gap' = <<>>
            /\ UNCHANGED <<duration, difference>>
  /\ twin' = TwinEvaluateRaise(twin, self, t, e)
  /\ UNCHANGED <<self, ctor, passed, aliased, activation, result, waited,
                 nLocalRun>>

\* Faulty variant of ContinuousSleepReturn: the initial delay sits inside
\* the loop, so every round waits delay_secs again.
ContinuousSleepReturnDelays(over) ==
  /\ pc = "ce_sleep"
  /\ IF DelayRequested(delay_secs)
       THEN /\ pc' = "ce_delay"
            /\ elapsed' = elapsed + difference + over
            /\ sinceInvoke' = sinceInvoke + difference + over
            /\ UNCHANGED <<trace, duration, difference, gap>>
       ELSE LoopStart(sinceInvoke + difference + over, FALSE, input_fn, name)
  /\ log' = <<>>
  /\ twin' = TwinLoopStart(twin, self)
  /\ UNCHANGED <<self, ctor, passed, aliased, activation, result, error,
                 waited, nLocalRun>>

\* time.sleep(difference) returns (line 170) and the loop goes round.
ContinuousSleepReturn(over) ==
  /\ pc = "ce_sleep"
  /\ LoopStart(sinceInvoke + difference + over, FALSE, input_fn, name)
  /\ log' = <<>>
  /\ twin' = TwinLoopStart(twin, self)
  /\ UNCHANGED <<self, ctor, passed, aliased, activation, result, error,
                 waited, nLocalRun>>

----------------------------------------------------------------------------
(* The caller and the environment *)

Next ==
  \/ \E d \in Delays : train(d)
  \/ \E d \in Delays : evaluate(d)
  \/ local_run
  \/ \E d \in Delays, t \in Throttles : continuous_eval(d, t)
  \/ \E d \in Delays, t \in Throttles : continuous_eval_on_train_data(d, t)
  \/ \E over \in Oversleeps : TrainSleepReturn(over)
  \/ \E over \in Oversleeps : EvaluateSleepReturn(over)
  \/ \E v \in FitResults : FitReturn(v)
  \/ \E e \in EstimatorErrors : FitRaise(e)
  \/ \E v \in EvalResults : EvaluateReturn(v)
  \/ \E e \in EstimatorErrors : EvaluateRaise(e)
  \/ \E over \in Oversleeps : ContinuousDelayReturn(over)
  \/ \E t \in EvalTimes, v \in EvalResults : ContinuousEvaluateReturn(t, v)
  \/ \E t \in EvalTimes, e \in EstimatorErrors : ContinuousEvaluateRaise(t, e)
  \/ \E over \in Oversleeps : ContinuousSleepReturn(over)

Spec == Init /\ [][Next]_vars

\* The blocking calls come back: every time.sleep ends, and the Estimator
\* ends every evaluate of the loop by returning or raising.
Returns ==
  \/ \E over \in Oversleeps : ContinuousDelayReturn(over)
  \/ \E over \in Oversleeps : ContinuousSleepReturn(over)
  \/ \E t \in EvalTimes, v \in EvalResults : ContinuousEvaluateReturn(t, v)
  \/ \E t \in EvalTimes, e \in EstimatorErrors : ContinuousEvaluateRaise(t, e)

FairSpec == Spec /\ WF_vars(Returns)

----------------------------------------------------------------------------
(* Properties *)

InContinuous == op \in {"continuous_eval", "continuous_eval_on_train_data"}

Last(s) == s[Len(s)]

Max(a, b) == IF a >= b THEN a ELSE b

\* The loop has logged its NotFittedError warning in the last step.
WarningLogged ==
  log # <<>> /\ log[1] = "Estimator is not fitted yet, skipping evaluation."

\* C1: in _continuous_eval every evaluate invocation after the first
\* starts at least throttle_delay_secs after the previous one started,
\* however long the evaluation ran.
C1_ThrottleSpacing ==
  (InContinuous /\ gap # <<>>) => gap[1] >= throttle_delay_secs

\* An invocation that followed another under a positive throttle.
C1_Witness ==
  /\ InContinuous
  /\ pc = "ce_evaluate"
  /\ gap # <<>>
  /\ throttle_delay_secs > 0

\* C2: the wait after an evaluation that ended elapsed after the
\* iteration's start is max(0, throttle_delay_secs - elapsed): the loop
\* sleeps exactly the remainder when elapsed < throttle_delay_secs, and
\* goes straight to the next evaluate, with no sleep, otherwise.
C2_WaitIsRemainder ==
  [][pc = "ce_evaluate" =>
       /\ pc' = "ce_sleep" =>
            /\ duration' = elapsed'
            /\ elapsed' < throttle_delay_secs
            /\ difference' = Max(0, throttle_delay_secs - elapsed')
       /\ pc' = "ce_evaluate" =>
            /\ gap' # <<>>
            /\ Max(0, throttle_delay_secs - gap'[1]) = 0]_vars

\* The loop sleeps a remainder of 1 after an evaluation that took 1.
C2_Witness ==
  /\ InContinuous
  /\ pc = "ce_sleep"
  /\ duration = 1
  /\ difference = 1

\* C3: NotFittedError from Estimator.evaluate is logged as a warning and
\* the loop goes on; any other error kind ends the loop, reaches the
\* caller unchanged, and no evaluate is invoked after it.
C3_OnlyNotFittedRecovered ==
  /\ [](InContinuous /\ pc = "raised" => error # "NotFittedError")
  /\ [][pc = "ce_evaluate" =>
          /\ WarningLogged' =>
               /\ pc' \in {"ce_sleep", "ce_evaluate"}
               /\ error' = NoError
          /\ (Last(trace').ev = "raise"
              /\ Last(trace').kind # "NotFittedError") =>
               /\ pc' = "raised"
               /\ error' = Last(trace').kind]_vars
  /\ [][(InContinuous /\ pc = "raised" /\ nCalls' = nCalls) =>
          UNCHANGED vars]_vars

\* The loop is waiting for its next round after a NotFittedError.
C3_Witness ==
  /\ InContinuous
  /\ pc = "ce_sleep"
  /\ Last(trace) = RaiseEv("evaluate", "NotFittedError")
  /\ WarningLogged

\* An Estimator.evaluate call of the loop failed with an error the loop
\* does not handle.
EstimatorFailed ==
  /\ pc = "raised"
  /\ trace # <<>>
  /\ Last(trace).ev = "raise"
  /\ Last(trace).kind # "NotFittedError"

\* C4: continuous_eval and continuous_eval_on_train_data never return,
\* and unless an Estimator.evaluate call fails with an error other than
\* NotFittedError they invoke Estimator.evaluate again and again: from
\* every state of the k-th call, that same call is inside another
\* Estimator.evaluate later on.
C4_NeverReturnsLoopsForever ==
  /\ [](InContinuous => pc # "returned")
  /\ \A k \in 1..MaxCalls :
       [](InContinuous /\ nCalls = k =>
            <>(nCalls = k /\ (pc = "ce_evaluate" \/ EstimatorFailed)))

\* Indices of trace holding an invocation of Estimator operation fn.
Invocations(fn) ==
  {i \in 1..Len(trace) : trace[i].ev = "call" /\ trace[i].fn = fn}

\* C5: local_run invokes Estimator.fit once and then, only after fit has
\* returned, Estimator.evaluate once, never waiting; when both succeed it
\* returns what evaluate returned and drops what fit returned.
C5_LocalRunFitThenEvaluate ==
  op = "local_run" =>
    /\ waited = 0
    /\ pc \notin {"train_sleep", "evaluate_sleep"}
    /\ Invocations("fit") = {1}
    /\ Invocations("evaluate") \subseteq {3}
    /\ Len(trace) >= 3 => trace[2].ev = "return" /\ trace[2].fn = "fit"
    /\ pc = "returned" =>
         /\ Len(trace) = 4
         /\ trace[4].ev = "return"
         /\ trace[4].fn = "evaluate"
         /\ result = trace[4].value

\* local_run has returned the second of the two evaluation results.
C5_Witness ==
  /\ op = "local_run"
  /\ pc = "returned"
  /\ result = PyObj("dict", "scores_b")

\* The monitors an Experiment lists, None counting as no monitors.
MonitorsOf(s) ==
  IF s.train_monitors = None THEN <<>> ELSE s.train_monitors.v

\* The periodic validation monitor local_run is to build for Experiment s.
PeriodicMonitor(s) ==
  [tag |-> "ValidationMonitor", input_fn |-> s.eval_input_fn,
   eval_steps |-> s.eval_steps, metrics |-> s.eval_metrics,
   every_n_steps |-> s.local_eval_frequency]

PositiveFrequency(s) ==
  s.local_eval_frequency.tag = "int" /\ s.local_eval_frequency.v > 0

\* C6: one local_run call with local_eval_frequency = n > 0 makes
\* train_monitors the previous monitors, in their order, followed by one
\* new periodic validation monitor built from eval_input_fn, eval_steps,
\* eval_metrics and every_n_steps = n, and passes that list to fit.
C6_LocalRunAppendsOneMonitor ==
  [][(nLocalRun' # nLocalRun /\ PositiveFrequency(self)) =>
       /\ self'.train_monitors =
            PyList(MonitorsOf(self) \o <<PeriodicMonitor(self)>>)
       /\ trace' # <<>>
       /\ trace'[1].ev = "call"
       /\ trace'[1].fn = "fit"
       /\ trace'[1].args.monitors = self'.train_monitors]_vars

\* The first local_run of an Experiment built with two monitors and
\* local_eval_frequency = 5.
C6_Witness ==
  /\ op = "local_run"
  /\ nLocalRun = 1
  /\ ctor.local_eval_frequency = PyInt(5)
  /\ Len(MonitorsOf(ctor)) = 2
  /\ Len(MonitorsOf(self)) = 3

\* C7: with local_eval_frequency = None, any number of local_run calls
\* leave train_monitors as constructed, except that None becomes [].
C7_NoFrequencyNoMonitor ==
  self.local_eval_frequency = None =>
    self.train_monitors =
      IF nLocalRun = 0 THEN ctor.train_monitors
      ELSE PyList(MonitorsOf(ctor))

\* Two local_run calls on an Experiment built with train_monitors = None
\* and local_eval_frequency = None.
C7_Witness ==
  /\ self.local_eval_frequency = None
  /\ ctor.train_monitors = None
  /\ nLocalRun = 2
  /\ op = "local_run"
  /\ pc = "returned"

\* k copies of monitor m.
Copies(k, m) == [i \in 1..k |-> m]

\* C8: with local_eval_frequency set, k local_run calls leave the initial
\* monitors followed by k periodic monitors in train_monitors, and the
\* k-th call passes all of them to fit.
C8_LocalRunNotIdempotent ==
  (PositiveFrequency(self) /\ nLocalRun > 0) =>
    /\ self.train_monitors =
         PyList(MonitorsOf(ctor) \o Copies(nLocalRun, PeriodicMonitor(self)))
    /\ op = "local_run" => trace[1].args.monitors = self.train_monitors

\* The second local_run has returned and two periodic monitors are listed.
C8_Witness ==
  /\ PositiveFrequency(self)
  /\ op = "local_run"
  /\ pc = "returned"
  /\ nLocalRun = 2
  /\ Len(MonitorsOf(self)) = Len(MonitorsOf(ctor)) + 2

\* C9: with delay_secs > 0, train, evaluate and _continuous_eval invoke
\* the Estimator only once the delay is over, delay_secs or more after
\* the operation was called.
C9_DelayBeforeEstimator ==
  delay_secs > 0 =>
    /\ pc \in {"train_sleep", "evaluate_sleep", "ce_delay"} => trace = <<>>
    /\ trace # <<>> => waited >= delay_secs

\* train(delay_secs=1) has slept and is inside Estimator.fit.
C9_Witness ==
  /\ op = "train"
  /\ delay_secs = 1
  /\ pc = "fit"
  /\ waited >= 1

\* C10: train waits only if delay_secs > 0; with delay_secs zero or
\* negative it does not wait and invokes Estimator.fit with
\* train_input_fn, train_steps and train_monitors.
C10_TrainSkipsNonPositiveDelay ==
  op = "train" =>
    /\ pc = "train_sleep" => delay_secs > 0
    /\ delay_secs <= 0 =>
         /\ waited = 0
         /\ trace # <<>>
         /\ trace[1] = CallEv("fit", [input_fn |-> self.train_input_fn,
                                      max_steps |-> self.train_steps,
                                      monitors |-> self.train_monitors])

\* The operation in progress has ended, by returning or by raising.
Ended == pc \in {"returned", "raised"}

\* C11: every call of train invokes Estimator.fit exactly once, with the
\* stored train_input_fn, train_steps and train_monitors (None included),
\* and returns the value fit returned.
C11_TrainInvokesFitOnce ==
  op = "train" =>
    /\ \A i \in Invocations("fit") :
         trace[i].args = [input_fn |-> self.train_input_fn,
                          max_steps |-> self.train_steps,
                          monitors |-> self.train_monitors]
    /\ Invocations("evaluate") = {}
    /\ Cardinality(Invocations("fit")) <= 1
    /\ Ended => Cardinality(Invocations("fit")) = 1
    /\ pc = "returned" => Last(trace) = ReturnEv("fit", result)

\* C12: every call of evaluate, direct or through local_run, invokes
\* Estimator.evaluate exactly once, with the stored eval_input_fn,
\* eval_steps and eval_metrics and name = "one_pass", and returns the
\* value the Estimator returned.
C12_EvaluateInvokesOnce ==
  op \in {"evaluate", "local_run"} =>
    /\ \A i \in Invocations("evaluate") :
         trace[i].args = [input_fn |-> self.eval_input_fn,
                          steps |-> self.eval_steps,
                          metrics |-> self.eval_metrics,
                          name |-> "one_pass"]
    /\ Cardinality(Invocations("evaluate")) <= 1
    /\ (op = "evaluate" /\ Ended) =>
         Cardinality(Invocations("evaluate")) = 1
    /\ pc = "returned" => Last(trace) = ReturnEv("evaluate", result)

\* C14: train, evaluate and local_run neither retry nor translate: an
\* Estimator call that fails, with NotFittedError or any other kind, is
\* the last thing the operation does, was made once, and its error kind
\* is the one that reaches the caller.
C14_NoRetryNoTranslation ==
  op \in {"train", "evaluate", "local_run"} =>
    \A i \in 1..Len(trace) :
      trace[i].ev = "raise" =>
        /\ i = Len(trace)
        /\ pc = "raised"
        /\ error = trace[i].kind
        /\ Cardinality(Invocations(trace[i].fn)) = 1

\* local_run has ended with the NotFittedError its evaluate call raised.
C14_Witness ==
  /\ op = "local_run"
  /\ pc = "raised"
  /\ Len(trace) = 4
  /\ Last(trace) = RaiseEv("evaluate", "NotFittedError")
  /\ error = "NotFittedError"

\* C15: no operation changes a field of the Experiment, except that
\* local_run changes train_monitors: without a local_run every field has
\* its constructor value, and with local_run calls every other field has.
C15_ConfigurationImmutable ==
  /\ \A f \in DOMAIN ctor \ {"train_monitors"} : self[f] = ctor[f]
  /\ nLocalRun = 0 => self = ctor

\* A local_run has changed train_monitors and a continuous evaluation
\* has run a round since.
C15_Witness ==
  /\ nLocalRun = 1
  /\ self.train_monitors # ctor.train_monitors
  /\ InContinuous
  /\ pc = "ce_sleep"

\* C17: _continuous_eval waits delay_secs only before its first
\* Estimator.evaluate invocation, and at most once: once evaluate has
\* been invoked the call never waits delay_secs again.
C17_InitialDelayOnce ==
  /\ [](pc = "ce_delay" => trace = <<>> /\ waited = 0)
  /\ [][pc' = "ce_delay" => nCalls' # nCalls]_vars
  /\ [][(InContinuous /\ trace # <<>> /\ nCalls' = nCalls) =>
          (waited' = waited /\ pc' # "ce_delay")]_vars

\* A delayed loop has reached a later invocation.
C17_Witness ==
  /\ InContinuous
  /\ delay_secs = 1
  /\ waited >= 1
  /\ pc = "ce_evaluate"
  /\ gap # <<>>

\* C18: an iteration whose evaluate raised NotFittedError is throttled
\* like any other: the loop sleeps the remainder of throttle_delay_secs,
\* counted from that invocation's start, or the window is already over;
\* the next invocation starts throttle_delay_secs or more after the
\* failed one.
C18_NotFittedIsThrottled ==
  /\ [][(pc = "ce_evaluate" /\ WarningLogged') =>
          \/ /\ pc' = "ce_sleep"
             /\ Last(trace') = RaiseEv("evaluate", "NotFittedError")
             /\ elapsed' < throttle_delay_secs
             /\ difference' = throttle_delay_secs - elapsed'
          \/ /\ pc' = "ce_evaluate"
             /\ gap' # <<>>
             /\ gap'[1] >= throttle_delay_secs]_vars
  /\ [][(pc = "ce_sleep" /\ pc' = "ce_evaluate") =>
          (gap' # <<>> /\ gap'[1] >= throttle_delay_secs)]_vars

\* The Estimator raised NotFittedError at once and the loop sleeps the
\* whole window of 2.
C18_Witness ==
  /\ InContinuous
  /\ pc = "ce_sleep"
  /\ WarningLogged
  /\ throttle_delay_secs = 2
  /\ difference = 2

\* local_run has ended because its Estimator.fit call raised.
FitFailedInLocalRun ==
  /\ op = "local_run"
  /\ pc = "raised"
  /\ Last(trace).ev = "raise"
  /\ Last(trace).fn = "fit"

\* C19: when Estimator.fit fails inside local_run, that call never
\* invokes Estimator.evaluate and the periodic monitor it appended stays
\* in train_monitors, so the next local_run passes one more monitor to
\* fit than the failed call did.
C19_FailedFitKeepsMonitor ==
  /\ [](FitFailedInLocalRun =>
          /\ Invocations("evaluate") = {}
          /\ self.train_monitors = trace[1].args.monitors
          /\ PositiveFrequency(self) =>
               /\ Last(MonitorsOf(self)) = PeriodicMonitor(self)
               /\ Len(MonitorsOf(self)) = Len(MonitorsOf(ctor)) + nLocalRun)
  /\ [][(FitFailedInLocalRun /\ PositiveFrequency(self)
         /\ op' = "local_run" /\ nCalls' # nCalls) =>
          Len(trace'[1].args.monitors.v) =
            Len(trace[1].args.monitors.v) + 1]_vars

\* The first local_run failed in fit and its periodic monitor is listed.
C19_Witness ==
  /\ FitFailedInLocalRun
  /\ PositiveFrequency(self)
  /\ nLocalRun = 1
  /\ Len(MonitorsOf(self)) = Len(MonitorsOf(ctor)) + 1

\* C20: every sleep of the loop is asked for a length d with
\* 0 < d <= throttle_delay_secs; with throttle_delay_secs <= 0 the loop
\* never sleeps.
C20_SleepWithinThrottle ==
  /\ pc = "ce_sleep" =>
       (0 < difference /\ difference <= throttle_delay_secs)
  /\ (InContinuous /\ throttle_delay_secs <= 0) => pc # "ce_sleep"

\* The loop sleeps a whole window of 2 after an evaluation that took no
\* time.
C20_Witness ==
  /\ InContinuous
  /\ pc = "ce_sleep"
  /\ throttle_delay_secs = 2
  /\ duration = 0
  /\ difference = 2

\* A trace with input_fn and name taken out of every invocation.
Erase(tr) ==
  [i \in 1..Len(tr) |->
     IF tr[i].ev = "call"
       THEN [tr[i] EXCEPT !.args = [steps |-> tr[i].args.steps,
                                    metrics |-> tr[i].args.metrics]]
       ELSE tr[i]]

\* The arguments continuous_eval gives Estimator.evaluate and those
\* continuous_eval_on_train_data gives it.
OnEvalData(s) ==
  [input_fn |-> s.eval_input_fn, steps |-> s.eval_steps,
   metrics |-> s.eval_metrics, name |-> "continuous"]

OnTrainData(s) ==
  [input_fn |-> s.train_input_fn, steps |-> s.eval_steps,
   metrics |-> s.eval_metrics, name |-> "continuous_on_train_data"]

\* C13: on the same delay_secs, throttle_delay_secs, Estimator behaviour
\* and sleeps, continuous_eval and continuous_eval_on_train_data are at
\* the same point at every step, ask for the same delay and the same
\* sleeps, log and fail alike, and make the same Estimator.evaluate
\* invocations but for input_fn and name: eval_input_fn and "continuous"
\* in one, train_input_fn and "continuous_on_train_data" in the other,
\* with steps = eval_steps and metrics = eval_metrics in both.
C13_WrappersEquivalent ==
  InContinuous =>
    /\ twin.pc = pc
    /\ twin.delay_secs = delay_secs
    /\ twin.throttle_delay_secs = throttle_delay_secs
    /\ twin.duration = duration
    /\ twin.difference = difference
    /\ twin.error = error
    /\ twin.log = log
    /\ Len(twin.trace) = Len(trace)
    /\ Erase(twin.trace) = Erase(trace)
    /\ \A i \in Invocations("evaluate") :
         IF op = "continuous_eval"
           THEN /\ trace[i].args = OnEvalData(self)
                /\ twin.trace[i].args = OnTrainData(self)
           ELSE /\ trace[i].args = OnTrainData(self)
                /\ twin.trace[i].args = OnEvalData(self)

\* continuous_eval_on_train_data, called with a delay, sleeps a
\* remainder of 1 after an evaluation on the training data, and so does
\* continuous_eval after its evaluation.
C13_Witness ==
  /\ op = "continuous_eval_on_train_data"
  /\ delay_secs = 1
  /\ pc = "ce_sleep"
  /\ difference = 1
  /\ Len(trace) = 2
  /\ trace[1].args.input_fn = self.train_input_fn
  /\ twin.pc = "ce_sleep"
  /\ twin.trace[1].args.name = "continuous"

\* C16: after a local_run with local_eval_frequency set, the list object
\* the caller passed to the constructor as train_monitors, empty or not,
\* holds the periodic monitor.
C16_CallerListGetsMonitor ==
  (/\ passed.tag = "list"
   /\ nLocalRun >= 1
   /\ Truthy(self.local_eval_frequency)) =>
    \E i \in 1..Len(passed.v) : passed.v[i] = PeriodicMonitor(self)

====
